---------------------------- MODULE Spec2Model ----------------------------
(***************************************************************************)
(* A model of the duckai bridge: the DuckAI upstream client with its       *)
(* sliding-window rate governor (duckai.ts) and the OpenAI protocol        *)
(* translator (openai-service.ts, server.ts).                              *)
(*                                                                         *)
(* Spec        the life of inbound requests through DuckAI.chat and        *)
(*             DuckAI.chatStream: admission, challenge, recording, POST,   *)
(*             reply.  Time is in milliseconds, as in the code.            *)
(* SpecService one inbound HTTP request through the server's fetch         *)
(*             handler and OpenAIService: validation, translation,         *)
(*             completion, streaming.                                      *)
(***************************************************************************)
EXTENDS Integers, Sequences, FiniteSets, TLC

(***************************************************************************)
(* Program constants (duckai.ts).                                          *)
(***************************************************************************)
MAX_REQUESTS_PER_MINUTE == 20
WINDOW_SIZE_MS == 60000
MIN_REQUEST_INTERVAL_MS == 1000
WINDOW_FULL_BUFFER_MS == 100
DEFAULT_RETRY_AFTER_MS == 60000

(***************************************************************************)
(* Bounds of the model.                                                    *)
(***************************************************************************)
MaxReq == 2          \* request slots: inbound requests in flight at once
StartTime == 60000   \* Date.now() when the process is constructed
MaxTime == 61000     \* the clock stops advancing here
InitGap == 3000      \* spacing of the calls a persisted window was left by
MaxCalls == 3        \* calls of chat / chatStream in one behaviour

AllProcs == {1, 2}
Reqs == 1..MaxReq
TickSteps == {500}

VARIABLES
    now,            \* Date.now()
    procs,          \* the server processes that are running
    store,          \* RateLimitStore: the persisted record shared by all processes
    rateLimitInfo,  \* DuckAI.rateLimitInfo of each process
    req,            \* the inbound requests in flight, by slot
    settled,        \* the call that settled last: what its caller got
    serial,         \* the number of calls of chat / chatStream so far
    postLog,        \* the chat POSTs issued so far, in order
    phase,          \* SpecService: where the fetch handler's request is
    httpReq,        \* the request body being served
    posted,         \* the messages of the DuckAIRequest handed to DuckAI
    upReply,        \* the upstream's reply to the chat POST
    scan,           \* what ToolService found in the text chat returned
    httpResp,       \* the response returned to the client
    netLeft,        \* streaming: body lines the upstream has not sent yet
    duckQueue,      \* fragments enqueued on chatStream's stream, not read yet
    duckClosed,     \* chatStream's stream is closed
    events,         \* what has been enqueued on the response stream
    downClosed      \* the response stream is closed

govVars == <<now, procs, store, rateLimitInfo, req, settled>>
svcVars == <<phase, httpReq, posted, upReply, scan, httpResp,
             netLeft, duckQueue, duckClosed, events, downClosed>>
callVars == <<serial, postLog>>
vars == <<govVars, svcVars, callVars>>

Max(a, b) == IF a >= b THEN a ELSE b

(***************************************************************************)
(* RateLimitInfo.  retryAfter = -1 stands for undefined.                   *)
(***************************************************************************)
EmptyRateLimitInfo ==
    [requestTimestamps |-> <<>>, lastRequestTime |-> 0,
     isLimited |-> FALSE, retryAfter |-> -1]

\* The store: `exists' is FALSE while there is no file (read() returns
\* nothing); `old' marks a record of the former format, which has
\* requestCount and windowStart and no requestTimestamps.
NoStore ==
    [exists |-> FALSE, old |-> FALSE, requestTimestamps |-> <<>>,
     lastRequestTime |-> 0, isLimited |-> FALSE, retryAfter |-> -1]

\* Nothing purged.
cleanOldTimestampsKeepsAll(info, t) == info

cleanOldTimestamps(info, t) ==
    [info EXCEPT !.requestTimestamps =
        SelectSeq(@, LAMBDA ts : ts > t - WINDOW_SIZE_MS)]

getCurrentRequestCount(info, t) ==
    Len(cleanOldTimestamps(info, t).requestTimestamps)

\* The flag and the hint of the store not taken over.
loadRateLimitFromStoreResetsFlag(info, stored, t) ==
    IF ~stored.exists THEN info
    ELSE cleanOldTimestamps(
            [requestTimestamps |-> IF stored.old THEN <<>> ELSE stored.requestTimestamps,
             lastRequestTime |-> stored.lastRequestTime,
             isLimited |-> FALSE,
             retryAfter |-> -1], t)

loadRateLimitFromStore(info, stored, t) ==
    IF ~stored.exists THEN info
    ELSE IF stored.old
         THEN cleanOldTimestamps(
                 [requestTimestamps |-> <<>>,
                  lastRequestTime |-> stored.lastRequestTime,
                  isLimited |-> stored.isLimited,
                  retryAfter |-> stored.retryAfter], t)
         ELSE cleanOldTimestamps(
                 [requestTimestamps |-> stored.requestTimestamps,
                  lastRequestTime |-> stored.lastRequestTime,
                  isLimited |-> stored.isLimited,
                  retryAfter |-> stored.retryAfter], t)

\* Only the newest timestamp written.
saveRateLimitToStoreNewestOnly(info, t) ==
    LET c == cleanOldTimestamps(info, t)
        ts == c.requestTimestamps
    IN  [exists |-> TRUE, old |-> FALSE,
         requestTimestamps |-> IF ts = <<>> THEN ts ELSE <<ts[Len(ts)]>>,
         lastRequestTime |-> c.lastRequestTime,
         isLimited |-> c.isLimited, retryAfter |-> c.retryAfter]

\* What saveRateLimitToStore writes, given the in-memory record.
saveRateLimitToStore(info, t) ==
    LET c == cleanOldTimestamps(info, t)
    IN  [exists |-> TRUE, old |-> FALSE,
         requestTimestamps |-> c.requestTimestamps,
         lastRequestTime |-> c.lastRequestTime,
         isLimited |-> c.isLimited, retryAfter |-> c.retryAfter]

\* The window-full wait without the 100 ms buffer.
shouldWaitBeforeRequestNoBuffer(info, t) ==
    LET ts == info.requestTimestamps
        timeSinceLastRequest == t - info.lastRequestTime
    IN  IF Len(ts) >= MAX_REQUESTS_PER_MINUTE /\ ts[1] # 0
        THEN [shouldWait |-> TRUE,
              waitTime |-> Max(0, ts[1] + WINDOW_SIZE_MS - t)]
        ELSE IF timeSinceLastRequest < MIN_REQUEST_INTERVAL_MS
             THEN [shouldWait |-> TRUE,
                   waitTime |-> MIN_REQUEST_INTERVAL_MS - timeSinceLastRequest]
             ELSE [shouldWait |-> FALSE, waitTime |-> 0]

\* shouldWaitBeforeRequest, on the record just reloaded and cleaned.
shouldWaitBeforeRequest(info, t) ==
    LET ts == info.requestTimestamps
        timeSinceLastRequest == t - info.lastRequestTime
    IN  IF Len(ts) >= MAX_REQUESTS_PER_MINUTE /\ ts[1] # 0
        THEN [shouldWait |-> TRUE,
              waitTime |-> Max(0, ts[1] + WINDOW_SIZE_MS - t + WINDOW_FULL_BUFFER_MS)]
        ELSE IF timeSinceLastRequest < MIN_REQUEST_INTERVAL_MS
             THEN [shouldWait |-> TRUE,
                   waitTime |-> MIN_REQUEST_INTERVAL_MS - timeSinceLastRequest]
             ELSE [shouldWait |-> FALSE, waitTime |-> 0]


(***************************************************************************)
(* Text.  A string is a sequence of characters; " " is the only            *)
(* whitespace the model's inputs contain.                                  *)
(***************************************************************************)
IsWhitespace(c) == c = " "

RECURSIVE TrimStart(_)
TrimStart(s) ==
    IF s = <<>> THEN <<>>
    ELSE IF IsWhitespace(Head(s)) THEN TrimStart(Tail(s)) ELSE s

RECURSIVE TrimEnd(_)
TrimEnd(s) ==
    IF s = <<>> THEN <<>>
    ELSE IF IsWhitespace(s[Len(s)]) THEN TrimEnd(SubSeq(s, 1, Len(s) - 1)) ELSE s

\* String.prototype.trim
Trim(s) == TrimEnd(TrimStart(s))

FALLBACK_RESPONSE == <<"I apologize">>

(***************************************************************************)
(* The upstream's reply to the chat POST.                                  *)
(*   status      the HTTP status                                           *)
(*   retryAfter  the retry-after header in seconds, -1 when absent         *)
(*   kind        "json_error": the body is one JSON object whose action is *)
(*               "error"; "json_other": the body is some other JSON value; *)
(*               "sse": the body is event-stream lines                     *)
(*   lines       the body split at "\n"; of each line: whether it starts   *)
(*               with "data: ", whether the rest parses as JSON, and the   *)
(*               message field of that JSON (<<>>: absent or empty)        *)
(* A body that is one JSON value has no line starting with "data: ".       *)
(***************************************************************************)
Line(data, json, message) == [data |-> data, json |-> json, message |-> message]

\* The message of any line that parses, the "data: " marker not looked at.
LineMessageAnyLine(line) ==
    IF line.json /\ line.message # <<>> THEN line.message ELSE <<>>

\* The fragment a line yields: `if (line.startsWith("data: "))', JSON.parse
\* in try/catch, `if (json.message)'.
LineMessage(line) ==
    IF line.data /\ line.json /\ line.message # <<>> THEN line.message ELSE <<>>

RECURSIVE ConcatMessages(_)
ConcatMessages(lines) ==
    IF lines = <<>> THEN <<>>
    ELSE LineMessage(Head(lines)) \o ConcatMessages(Tail(lines))

\* The fragments chatStream's pump enqueues for one decoded chunk.
RECURSIVE ChunkFragments(_)
ChunkFragments(lines) ==
    IF lines = <<>> THEN <<>>
    ELSE (IF LineMessage(Head(lines)) # <<>> THEN <<LineMessage(Head(lines))>> ELSE <<>>)
         \o ChunkFragments(Tail(lines))

(***************************************************************************)
(* What a call of DuckAI.chat or DuckAI.chatStream settles with.           *)
(*   kind     "text": chat returned a string; "stream": chatStream         *)
(*            returned a stream; "error": the call threw                   *)
(*   error    the Error thrown; waitTime is the number its message carries *)
(*   content  the string returned, or the fragments the stream delivers    *)
(***************************************************************************)
NoResult == [kind |-> "none", error |-> "", waitTime |-> 0, content |-> <<>>]
Returned(kind, content) == [NoResult EXCEPT !.kind = kind, !.content = content]
Thrown(error, waitTime) == [NoResult EXCEPT !.kind = "error", !.error = error, !.waitTime = waitTime]

\* The header's seconds taken for milliseconds.
RetryAfterWaitUnscaled(retryAfter) ==
    IF retryAfter # -1 THEN retryAfter ELSE DEFAULT_RETRY_AFTER_MS

\* `retryAfter ? parseInt(retryAfter) * 1000 : 60000'
RetryAfterWait(retryAfter) ==
    IF retryAfter # -1 THEN retryAfter * 1000 ELSE DEFAULT_RETRY_AFTER_MS

\* The status checks both calls make on the POST's response.
StatusError(reply) ==
    IF reply.status = 429 THEN Thrown("RateLimited", RetryAfterWait(reply.retryAfter))
    ELSE IF reply.status # 200 THEN Thrown("DuckAIApiError", 0)
    ELSE NoResult

\* chat's check of the body for an error payload:
\*   try { parsed = JSON.parse(text);
\*         if (parsed.action === "error") throw new Error(...) }
\*   catch (e) { /* Not JSON, continue processing */ }
\* JSON.parse throws on an event-stream body, the check throws on an error
\* payload, and the one catch takes both: nothing leaves the block.
ErrorPayloadCheck(reply) ==
    LET thrownInTry ==
            IF reply.kind = "json_error" THEN "DuckAiError"
            ELSE IF reply.kind = "sse" THEN "SyntaxError" ELSE ""
        caught == thrownInTry # ""
    IN  IF caught THEN NoResult ELSE NoResult

\* chat without the fallback for an empty text.
ChatSettleNoFallback(reply) ==
    IF StatusError(reply).kind = "error" THEN StatusError(reply)
    ELSE Returned("text", Trim(ConcatMessages(reply.lines)))

\* DuckAI.chat from the response on.
ChatSettle(reply) ==
    IF StatusError(reply).kind = "error" THEN StatusError(reply)
    ELSE IF ErrorPayloadCheck(reply).kind = "error" THEN ErrorPayloadCheck(reply)
    ELSE LET finalResponse == Trim(ConcatMessages(reply.lines))
         IN  IF finalResponse = <<>>
             THEN Returned("text", FALLBACK_RESPONSE)
             ELSE Returned("text", finalResponse)

\* DuckAI.chatStream from the response on: the stream it returns delivers
\* the fragments of the body's lines (the body taken as one chunk here).
ChatStreamSettle(reply) ==
    IF StatusError(reply).kind = "error" THEN StatusError(reply)
    ELSE IF ~reply.hasBody THEN Thrown("NoResponseBody", 0)
    ELSE Returned("stream", ChunkFragments(reply.lines))

Reply(status, retryAfter, kind, lines, hasBody) ==
    [status |-> status, retryAfter |-> retryAfter, kind |-> kind,
     lines |-> lines, hasBody |-> hasBody]

NoReply == Reply(0, -1, "none", <<>>, FALSE)

(***************************************************************************)
(* The inbound request body (types.ts, ChatCompletionRequest) as JSON      *)
(* gives it to validateRequest.                                            *)
(*   messages    t: "missing", "notArray" or "array"; list: the array      *)
(*   a message   role; content, as a JSON value; tool_call_id ("" absent)  *)
(*   tools       t: "absent" or "array"; list: the function names;         *)
(*               valid: what ToolService.validateTools says of them        *)
(*   tool_choice t: "absent", "none", "auto", "required" or "function",    *)
(*               with the function's name                                  *)
(*   model       "" when absent                                            *)
(*   stream_options  "absent", "include_usage" (include_usage: true) or    *)
(*               "no_usage" (include_usage false or absent)                *)
(* A JSON value that may be a string: t is its type, s the string.         *)
(***************************************************************************)
Str(s) == [t |-> "string", s |-> s]
Null == [t |-> "null", s |-> <<>>]
Undefined == [t |-> "undefined", s |-> <<>>]
NumberValue == [t |-> "number", s |-> <<>>]

Msg(role, content) == [role |-> role, content |-> content, tool_call_id |-> ""]
ToolMsg(id, content) == [role |-> "tool", content |-> content, tool_call_id |-> id]

Choice(t) == [t |-> t, name |-> ""]
ChoiceFunction(name) == [t |-> "function", name |-> name]

NoTools == [t |-> "absent", list |-> <<>>, valid |-> TRUE]
Tools(names, valid) == [t |-> "array", list |-> names, valid |-> valid]

Body(messages, tools, tool_choice, stream, model) ==
    [messages |-> messages, tools |-> tools, tool_choice |-> tool_choice,
     stream |-> stream, model |-> model, stream_options |-> "absent"]

WithStreamOptions(body, options) == [body EXCEPT !.stream_options = options]

NoBody == Body([t |-> "missing", list |-> <<>>], NoTools, Choice("absent"), FALSE, "")

DEFAULT_MODEL == "mistralai/Mistral-Small-24B-Instruct-2501"

\* `m.content || ""'
ContentOrEmpty(content) == IF content.t = "string" THEN content.s ELSE <<>>

(***************************************************************************)
(* Text taken word by word (error messages, what a user writes).           *)
(* String.includes is decided on the words; ProperParts lists the words of *)
(* the model's vocabulary that have another one as a proper part.          *)
(***************************************************************************)
ProperParts == {<<"sometimes", "time">>, <<"timetable", "time">>}
WordHasPart(word, part) == word = part \/ <<word, part>> \in ProperParts
Includes(message, part) == \E i \in 1..Len(message) : WordHasPart(message[i], part)

ERR_MESSAGES_REQUIRED ==
    <<"messages", "field", "is", "required", "and", "must", "be", "an", "array">>
ERR_MESSAGES_EMPTY == <<"messages", "array", "cannot", "be", "empty">>
ERR_ROLE ==
    <<"Each", "message", "must", "have", "a", "valid", "role",
      "(system,", "user,", "assistant,", "or", "tool)">>
ERR_TOOL_CALL_ID == <<"Tool", "messages", "must", "have", "a", "tool_call_id">>
ERR_TOOL_CONTENT == <<"Tool", "messages", "must", "have", "content", "as", "a", "string">>
ERR_CONTENT ==
    <<"Each", "message", "must", "have", "content", "as", "a", "string", "or", "null">>
ERR_TOOLS == <<"Invalid", "tools:", "errors">>

\* The message of an Error thrown by DuckAI.chat / chatStream.
ErrorMessage(result) ==
    CASE result.error = "RateLimited" ->
            <<"Rate", "limited.", "Retry", "after", "waitTime", "ms.", "Status:", "429">>
      [] result.error = "DuckAIApiError" -> <<"DuckAI", "API", "error:", "status">>
      [] result.error = "NoResponseBody" -> <<"No", "response", "body">>
      [] result.error = "FailedToGetVQD" -> <<"Failed", "to", "get", "VQD:", "status">>
      [] result.error = "MissingVQDHeaders" -> <<"Missing", "VQD", "headers:", "hash=false">>
      [] OTHER -> <<result.error>>

\* The check validateRequest makes of one message; <<>> when it passes.
MessageError(message) ==
    IF message.role \notin {"system", "user", "assistant", "tool"} THEN ERR_ROLE
    ELSE IF message.role = "tool"
         THEN IF message.tool_call_id = "" THEN ERR_TOOL_CALL_ID
              ELSE IF message.content.t # "string" THEN ERR_TOOL_CONTENT
              ELSE <<>>
         ELSE IF message.content.t \notin {"string", "null"} THEN ERR_CONTENT
              ELSE <<>>

\* The error of the first message that fails, as the for loop finds it.
RECURSIVE FirstMessageError(_)
FirstMessageError(list) ==
    IF list = <<>> THEN <<>>
    ELSE IF MessageError(Head(list)) # <<>> THEN MessageError(Head(list))
    ELSE FirstMessageError(Tail(list))

\* ToolService.validateTools (tool-service.ts): whether the declared tools
\* are well-formed is an attribute of the input here.
validateTools(tools) == tools.valid

\* validateRequest: the Error it throws (<<>>: none).
ValidationError(body) ==
    IF body.messages.t # "array" THEN ERR_MESSAGES_REQUIRED
    ELSE IF body.messages.list = <<>> THEN ERR_MESSAGES_EMPTY
    ELSE IF FirstMessageError(body.messages.list) # <<>>
         THEN FirstMessageError(body.messages.list)
    ELSE IF body.tools.t = "array" /\ ~validateTools(body.tools) THEN ERR_TOOLS
    ELSE <<>>

\* validateRequest: the ChatCompletionRequest it returns.  The object is
\* built field by field, and stream_options is not among the fields.
validateRequest(body) ==
    [body EXCEPT !.model = IF body.model = "" THEN DEFAULT_MODEL ELSE body.model,
                 !.stream_options = "absent"]

(***************************************************************************)
(* The HTTP response of the fetch handler.                                 *)
(*   kind  "json": a ChatCompletionResponse; "stream": an event stream;    *)
(*         "error": the error envelope, with its type                      *)
(***************************************************************************)
\* ChatCompletionUsage.
Usage(promptTokens, completionTokens) ==
    [prompt_tokens |-> promptTokens, completion_tokens |-> completionTokens,
     total_tokens |-> promptTokens + completionTokens]

NoCompletion ==
    [content |-> Null, tool_calls |-> <<>>, finish_reason |-> "null", model |-> "",
     usage |-> Usage(0, 0)]

NoResponse ==
    [status |-> 0, kind |-> "none", type |-> "", completion |-> NoCompletion]

\* The catch block of the fetch handler.
ServerCatch(message) ==
    LET statusCode ==
            IF Includes(message, "Invalid") \/ Includes(message, "must") THEN 400 ELSE 500
    IN  [status |-> statusCode, kind |-> "error",
         type |-> IF statusCode = 400 THEN "invalid_request_error"
                  ELSE "internal_server_error",
         completion |-> NoCompletion]

JsonResponse(completion) ==
    [status |-> 200, kind |-> "json", type |-> "", completion |-> completion]

StreamResponse(completion) ==
    [status |-> 200, kind |-> "stream", type |-> "", completion |-> completion]

(***************************************************************************)
(* OpenAIService: translation of the request.                              *)
(***************************************************************************)
\* ToolService.shouldUseFunctionCalling (tool-service.ts).
shouldUseFunctionCalling(tools, tool_choice) ==
    /\ tools.t = "array"
    /\ tools.list # <<>>
    /\ tool_choice.t # "none"

\* ToolService.generateToolSystemPrompt (tool-service.ts): one opaque text.
generateToolSystemPrompt(tools, tool_choice) == <<"TOOL_PROMPT">>

\* transformToDuckAIRequest: the messages go through as they are.
transformToDuckAIRequest(request) ==
    [model |-> IF request.model = "" THEN DEFAULT_MODEL ELSE request.model,
     messages |-> request.messages.list]

\* The tool instructions put after the messages.
modifiedMessagesAppended(request) ==
    IF request.tools.t = "array" /\ request.tools.list # <<>>
    THEN request.messages.list
         \o <<Msg("user",
                   Str(<<"[SYSTEM INSTRUCTIONS] ">>
                       \o generateToolSystemPrompt(request.tools, request.tool_choice)
                       \o <<" Please follow these instructions when responding to the following user message.">>))>>
    ELSE request.messages.list

\* createChatCompletionWithTools: the messages with the tool instructions
\* put in front as a user message.
modifiedMessages(request) ==
    IF request.tools.t = "array" /\ request.tools.list # <<>>
    THEN <<Msg("user",
               Str(<<"[SYSTEM INSTRUCTIONS] ">>
                   \o generateToolSystemPrompt(request.tools, request.tool_choice)
                   \o <<" Please follow these instructions when responding to the following user message.">>))>>
         \o request.messages.list
    ELSE request.messages.list

\* The DuckAIRequest a validated request is served with.
DuckAIRequestOf(request) ==
    IF shouldUseFunctionCalling(request.tools, request.tool_choice)
    THEN transformToDuckAIRequest(
            [request EXCEPT !.messages.list = modifiedMessages(request)])
    ELSE transformToDuckAIRequest(request)

(***************************************************************************)
(* OpenAIService: the completion.                                          *)
(*   scan   what ToolService finds in the upstream text (tool-service.ts): *)
(*          detected: detectFunctionCalls; calls: extractFunctionCalls     *)
(***************************************************************************)
ToolCall(name, arguments) == [name |-> name, arguments |-> arguments]

NoScan == [detected |-> FALSE, calls |-> <<>>]

Completion(content, tool_calls, finish_reason, model, usage) ==
    [content |-> content, tool_calls |-> tool_calls,
     finish_reason |-> finish_reason, model |-> model, usage |-> usage]

\* Tokens as the floor of a quarter of the length.
estimateTokensFloor(text) == Len(text) \div 4

\* estimateTokens: Math.ceil(text.length / 4).  A text's length is the number
\* of its symbols.
estimateTokens(text) == (Len(text) + 3) \div 4

\* `messages.map((m) => m.content || "").join(" ")'
RECURSIVE promptText(_)
promptText(messages) ==
    IF messages = <<>> THEN <<>>
    ELSE IF Len(messages) = 1 THEN ContentOrEmpty(messages[1].content)
    ELSE ContentOrEmpty(messages[1].content) \o <<" ">> \o promptText(Tail(messages))

\* JSON.stringify(forcedToolCall): id, type, and the function's name and
\* arguments.
StringifyToolCall(call) == <<"call_id", "function", call.name>> \o call.arguments

\* `userContent.toLowerCase()': the vocabulary's one capitalised word.
ToLowerCase(text) == [i \in 1..Len(text) |-> IF text[i] = "Weather" THEN "weather" ELSE text[i]]

\* The words that match /\d+\s*[+\-*/]\s*\d+/.
MathExpressions == {"2+2"}
HasMath(text) == \E i \in 1..Len(text) : text[i] \in MathExpressions
FirstMath(text) == text[CHOOSE i \in 1..Len(text) :
                        /\ text[i] \in MathExpressions
                        /\ \A j \in 1..(i - 1) : text[j] \notin MathExpressions]

\* `request.tools.find((t) => t.function.name === name)'
Declares(tools, name) == \E i \in 1..Len(tools.list) : tools.list[i] = name

\* The function of the forced call.
functionToCall(request) ==
    LET last == request.messages.list[Len(request.messages.list)]
        userContent == ContentOrEmpty(last.content)
        lower == ToLowerCase(userContent)
        first == request.tools.list[1]
    IN  IF request.tool_choice.t = "function" THEN request.tool_choice.name
        ELSE IF Includes(lower, "time")
             THEN IF Declares(request.tools, "get_current_time")
                  THEN "get_current_time" ELSE first
        ELSE IF Includes(lower, "calculate") \/ HasMath(userContent)
             THEN IF Declares(request.tools, "calculate") THEN "calculate" ELSE first
        ELSE IF Includes(lower, "weather")
             THEN IF Declares(request.tools, "get_weather") THEN "get_weather" ELSE first
        ELSE first

\* The location /(?:in|for|at)\s+([A-Za-z\s,]+)/i captures: the words after
\* the first "in", "for" or "at" (<<>>: no match).
LocationWords == {"in", "for", "at"}
LocationOf(text) ==
    IF \E i \in 1..(Len(text) - 1) : text[i] \in LocationWords
    THEN LET i == CHOOSE k \in 1..(Len(text) - 1) :
                      /\ text[k] \in LocationWords
                      /\ \A j \in 1..(k - 1) : text[j] \notin LocationWords
         IN  SubSeq(text, i + 1, Len(text))
    ELSE <<>>

\* The arguments of the forced call; <<>> is "{}".
forcedArguments(request, name) ==
    LET last == request.messages.list[Len(request.messages.list)]
        userContent == ContentOrEmpty(last.content)
    IN  IF name = "calculate"
        THEN IF HasMath(userContent) THEN <<"expression", FirstMath(userContent)>> ELSE <<>>
        ELSE IF name = "get_weather"
             THEN IF LocationOf(userContent) # <<>>
                  THEN <<"location">> \o LocationOf(userContent) ELSE <<>>
        ELSE <<>>

\* createChatCompletion, without tools, from chat's text.
createChatCompletion(request, response) ==
    Completion(Str(response), <<>>, "stop", request.model,
               Usage(estimateTokens(promptText(request.messages.list)),
                     estimateTokens(response)))

\* The forced call for "required" only.
forcesToolCallRequiredOnly(request) ==
    /\ request.tool_choice.t = "required"
    /\ request.tools.t = "array"
    /\ request.tools.list # <<>>

\* Whether createChatCompletionWithTools forces a call when none was found.
forcesToolCall(request) ==
    /\ request.tool_choice.t = "required" \/ request.tool_choice.t = "function"
    /\ request.tools.t = "array"
    /\ request.tools.list # <<>>

\* The tool-call completion returned on detection alone, whatever was
\* extracted.
createChatCompletionWithToolsUnchecked(request, response, found) ==
    LET promptTokens == estimateTokens(promptText(modifiedMessages(request)))
        forcedToolCall == ToolCall(functionToCall(request),
                                   forcedArguments(request, functionToCall(request)))
    IN  IF found.detected
        THEN Completion(Null, found.calls, "tool_calls", request.model,
                        Usage(promptTokens, estimateTokens(response)))
        ELSE IF forcesToolCall(request)
        THEN Completion(Null, <<forcedToolCall>>, "tool_calls", request.model,
                        Usage(promptTokens,
                              estimateTokens(StringifyToolCall(forcedToolCall))))
        ELSE Completion(Str(response), <<>>, "stop", request.model,
                        Usage(promptTokens, estimateTokens(response)))

\* createChatCompletionWithTools, from chat's text.
createChatCompletionWithTools(request, response, found) ==
    LET promptTokens == estimateTokens(promptText(modifiedMessages(request)))
        forcedToolCall == ToolCall(functionToCall(request),
                                   forcedArguments(request, functionToCall(request)))
    IN  IF found.detected /\ found.calls # <<>>
        THEN Completion(Null, found.calls, "tool_calls", request.model,
                        Usage(promptTokens, estimateTokens(response)))
        ELSE IF forcesToolCall(request)
        THEN Completion(Null, <<forcedToolCall>>, "tool_calls", request.model,
                        Usage(promptTokens,
                              estimateTokens(StringifyToolCall(forcedToolCall))))
        ELSE Completion(Str(response), <<>>, "stop", request.model,
                        Usage(promptTokens, estimateTokens(response)))

(***************************************************************************)
(* OpenAIService: the event stream.  An event is a chunk (its delta's      *)
(* role, "" when it has none; whether it has content, and the content; its *)
(* tool calls; its finish_reason) or the `data: [DONE]' line.              *)
(***************************************************************************)
Chunk(role, hasContent, content, tool_calls, finish_reason) ==
    [type |-> "chunk", role |-> role, hasContent |-> hasContent,
     content |-> content, tool_calls |-> tool_calls,
     finish_reason |-> finish_reason]

DoneEvent ==
    [type |-> "done", role |-> "", hasContent |-> FALSE, content |-> <<>>,
     tool_calls |-> <<>>, finish_reason |-> "null"]

FinalChunk(finish_reason) == Chunk("", FALSE, <<>>, <<>>, finish_reason)

\* createChatCompletionStream: the chunk for one fragment read from
\* chatStream's stream.
ContentChunk(isFirst, value) ==
    IF isFirst THEN Chunk("assistant", TRUE, value, <<>>, "null")
    ELSE Chunk("", TRUE, value, <<>>, "null")

CHUNK_SIZE == 10

\* Each slice starting on the last character of the one before.
RECURSIVE SlicesOverlapping(_)
SlicesOverlapping(content) ==
    IF content = <<>> THEN <<>>
    ELSE IF Len(content) <= CHUNK_SIZE
         THEN <<Chunk("", TRUE, content, <<>>, "null")>>
         ELSE <<Chunk("", TRUE, SubSeq(content, 1, CHUNK_SIZE), <<>>, "null")>>
              \o SlicesOverlapping(SubSeq(content, CHUNK_SIZE, Len(content)))

RECURSIVE Slices(_)
Slices(content) ==
    IF content = <<>> THEN <<>>
    ELSE IF Len(content) <= CHUNK_SIZE
         THEN <<Chunk("", TRUE, content, <<>>, "null")>>
         ELSE <<Chunk("", TRUE, SubSeq(content, 1, CHUNK_SIZE), <<>>, "null")>>
              \o Slices(SubSeq(content, CHUNK_SIZE + 1, Len(content)))

\* createChatCompletionStreamWithTools: everything its stream's start()
\* enqueues before it closes the stream.
StreamOfCompletion(completion) ==
    IF completion.tool_calls # <<>>
    THEN <<Chunk("assistant", FALSE, <<>>, completion.tool_calls, "null"),
           FinalChunk("tool_calls"), DoneEvent>>
    ELSE <<Chunk("assistant", FALSE, <<>>, <<>>, "null")>>
         \o Slices(ContentOrEmpty(completion.content))
         \o <<FinalChunk("stop"), DoneEvent>>

(***************************************************************************)
(* Spec: requests through DuckAI.chat / DuckAI.chatStream.                 *)
(*                                                                         *)
(* A request in flight is at one of the call's suspension points:          *)
(*   "sleeping"  in waitIfNeeded's setTimeout, until `wake'                *)
(*   "getVQD"    awaiting the status fetch of getVQD                       *)
(*   "posting"   awaiting the chat POST                                    *)
(* and "idle" is a free slot.  fetches and posts count the status fetches  *)
(* and chat POSTs issued for the request.  When the call settles, the slot *)
(* is freed and `settled' holds what the caller got.                       *)
(***************************************************************************)
(* call is the number of the call (0: none), waitedFor what its sleep is  *)
(* for ("windowFull", "minInterval", "" when it did not sleep), admitted   *)
(* whether waitIfNeeded has returned, ua the UserAgent created in the call *)
(* (0: none yet), recorded whether its timestamp has been pushed, window   *)
(* the timestamps shouldWaitBeforeRequest decided on.                      *)
IdleReq ==
    [pc |-> "idle", proc |-> 1, path |-> "chat", wake |-> 0,
     fetches |-> 0, posts |-> 0,
     call |-> 0, waitedFor |-> "", admitted |-> FALSE, ua |-> 0,
     recorded |-> FALSE, window |-> <<>>]

NothingSettled ==
    [path |-> "chat", fetches |-> 0, posts |-> 0,
     reply |-> NoReply, result |-> NoResult]

\* createChatCompletion / createChatCompletionStream: which DuckAI call
\* serves a request.  Only a streaming request without tools uses chatStream;
\* createChatCompletionStreamWithTools goes through chat.
PathOf(stream, withTools) ==
    IF stream /\ ~withTools THEN "chatStream" ELSE "chat"

\* The persisted windows a process may find when it starts: n calls,
\* InitGap apart, the oldest 400 ms short of leaving the window.
InitTimestamps(n) ==
    [i \in 1..n |-> StartTime - WINDOW_SIZE_MS + 400 + (i - 1) * InitGap]

InitStoreOf(n) ==
    [exists |-> TRUE, old |-> FALSE, requestTimestamps |-> InitTimestamps(n),
     lastRequestTime |-> InitTimestamps(n)[n],
     isLimited |-> FALSE, retryAfter |-> -1]

OldFormatStore ==
    [exists |-> TRUE, old |-> TRUE, requestTimestamps |-> <<>>,
     lastRequestTime |-> StartTime - 200,
     isLimited |-> FALSE, retryAfter |-> -1]

InitStores ==
    {NoStore, OldFormatStore,
     InitStoreOf(MAX_REQUESTS_PER_MINUTE - 1), InitStoreOf(MAX_REQUESTS_PER_MINUTE)}

\* The replies of the upstream.
UpstreamReplies ==
    {Reply(429, ra, "sse", <<>>, TRUE) : ra \in {-1, 0, 30}}
    \cup {Reply(500, -1, "sse", <<>>, TRUE)}
    \cup {Reply(200, -1, "json_error", <<Line(FALSE, FALSE, <<>>)>>, TRUE),
          Reply(200, -1, "sse", <<Line(TRUE, TRUE, <<"H", "i">>)>>, TRUE),
          Reply(200, -1, "sse", <<>>, FALSE)}

\* How getVQD can end.
VQDOutcomes == {"ok", "FailedToGetVQD", "MissingVQDHeaders", "ScriptThrew", "FetchFailed"}

\* The fetch handler is serving no request.
ServiceIdle ==
    /\ phase = "idle"
    /\ httpReq = NoBody
    /\ posted = <<>>
    /\ upReply = NoReply
    /\ scan = NoScan
    /\ httpResp = NoResponse
    /\ netLeft = <<>>
    /\ duckQueue = <<>>
    /\ duckClosed = FALSE
    /\ events = <<>>
    /\ downClosed = FALSE

\* The constructor: rateLimitInfo's initializer, then loadRateLimitFromStore.
Constructed(stored, t) == loadRateLimitFromStore(EmptyRateLimitInfo, stored, t)

InitGovernor(ps) ==
    /\ now = StartTime
    /\ procs = ps
    /\ store \in InitStores
    /\ rateLimitInfo = [p \in AllProcs |-> Constructed(store, now)]
    /\ req = [r \in Reqs |-> IdleReq]
    /\ settled = NothingSettled
    /\ serial = 0
    /\ postLog = <<>>
    /\ ServiceIdle

Init == InitGovernor({1})

\* The window-full condition of shouldWaitBeforeRequest.
windowIsFull(info) ==
    /\ Len(info.requestTimestamps) >= MAX_REQUESTS_PER_MINUTE
    /\ info.requestTimestamps[1] # 0

\* `new UserAgent().toString()': the user-agent made in call q, named by the
\* call that made it.
NewUserAgent(q) == q.call

\* A token handed out again: the one of the first POST, once there is one.
getVQDCached(q) ==
    IF postLog # <<>> THEN postLog[1].vqd ELSE [call |-> q.call, userAgent |-> q.ua]

\* getVQD(userAgent), when it returns: the token solved from the challenge
\* that the status fetch of call q, sent with its user-agent, was answered
\* with.
getVQD(q) == [call |-> q.call, userAgent |-> q.ua]

\* The chat POST of call q, recorded at time t: its User-Agent and
\* x-vqd-hash-1 headers, whether waitIfNeeded had returned, and the window
\* the call was admitted on.
ChatPost(q, t) ==
    [call |-> q.call, proc |-> q.proc, at |-> t, admitted |-> q.admitted,
     userAgent |-> q.ua, vqd |-> getVQD(q), window |-> q.window]

\* The decision taken on the record in memory, the store not read.
waitIfNeededInMemory(info, stored, t) ==
    LET cleaned == cleanOldTimestamps(info, t)
    IN  [info |-> cleaned, decision |-> shouldWaitBeforeRequest(cleaned, t)]

\* waitIfNeeded up to its await: shouldWaitBeforeRequest reloads the store,
\* cleans, and decides.
waitIfNeeded(info, stored, t) ==
    LET loaded == cleanOldTimestamps(loadRateLimitFromStore(info, stored, t), t)
    IN  [info |-> loaded, decision |-> shouldWaitBeforeRequest(loaded, t)]

\* An inbound request reaches chat or chatStream and runs to its first
\* suspension: the timer of waitIfNeeded, or the status fetch of getVQD.
ArriveCall(r, p, stream, withTools) ==
    /\ req[r].pc = "idle"
    /\ serial < MaxCalls
    /\ serial' = serial + 1
    /\ LET w == waitIfNeeded(rateLimitInfo[p], store, now)
           q == [IdleReq EXCEPT !.proc = p, !.path = PathOf(stream, withTools),
                                !.call = serial + 1,
                                !.window = w.info.requestTimestamps]
       IN  /\ rateLimitInfo' = [rateLimitInfo EXCEPT ![p] = w.info]
           /\ req' = [req EXCEPT ![r] =
                  IF w.decision.shouldWait
                  THEN [q EXCEPT !.pc = "sleeping",
                                 !.wake = now + w.decision.waitTime,
                                 !.waitedFor = IF windowIsFull(w.info)
                                               THEN "windowFull" ELSE "minInterval"]
                  ELSE [q EXCEPT !.pc = "getVQD", !.fetches = 1,
                                 !.admitted = TRUE, !.ua = NewUserAgent(q)]]
    /\ UNCHANGED <<now, procs, store, settled, postLog>>

\* The call alone, the fetch handler not looked at.
Arrive(r, p, stream, withTools) ==
    /\ ArriveCall(r, p, stream, withTools)
    /\ UNCHANGED svcVars

\* The call that had to wait fails when its timer fires.
WakeThrows(r) ==
    /\ req[r].pc = "sleeping"
    /\ now >= req[r].wake
    /\ req' = [req EXCEPT ![r] = IdleReq]
    /\ settled' = [path |-> req[r].path, fetches |-> req[r].fetches,
                   posts |-> req[r].posts, reply |-> NoReply,
                   result |-> Thrown("RateLimited", 0)]
    /\ UNCHANGED <<now, procs, store, rateLimitInfo, svcVars, callVars>>

\* The timer of waitIfNeeded fires; the call goes on to getVQD.
Wake(r) ==
    /\ req[r].pc = "sleeping"
    /\ now >= req[r].wake
    /\ req' = [req EXCEPT ![r].pc = "getVQD", ![r].fetches = @ + 1,
                          ![r].admitted = TRUE, ![r].ua = NewUserAgent(req[r])]
    /\ UNCHANGED <<now, procs, store, rateLimitInfo, settled, svcVars, callVars>>

\* The record, made on what the store holds at that moment.
recordRequestReloading(info, t) ==
    cleanOldTimestamps(
        [info EXCEPT !.requestTimestamps =
                        Append(loadRateLimitFromStore(info, store, t).requestTimestamps, t),
                     !.lastRequestTime = t], t)

\* The record written before the POST: push, lastRequestTime, save.
recordRequest(info, t) ==
    cleanOldTimestamps(
        [info EXCEPT !.requestTimestamps = Append(@, t), !.lastRequestTime = t], t)

\* The call of request q ends: its promise settles with `result' and the
\* request is over.
Settles(q, reply, result) ==
    [req |-> IdleReq,
     settled |-> [path |-> q.path, fetches |-> q.fetches, posts |-> q.posts,
                  reply |-> reply, result |-> result]]

\* One more attempt after an error, from the status fetch on.
RejectsAfterRetry(q, reply, error) ==
    IF q.fetches < 2
    THEN [req |-> [q EXCEPT !.pc = "getVQD", !.fetches = @ + 1], settled |-> settled]
    ELSE Settles(q, reply, error)

\* The error of getVQD raised only after the POST was issued.
PostsDespiteError(q, reply, error) ==
    IF q.pc = "getVQD"
    THEN Settles([q EXCEPT !.posts = @ + 1], reply, error)
    ELSE Settles(q, reply, error)

\* An Error thrown in chat / chatStream (by getVQD, by fetch, by the status
\* checks): nothing between the throw and the fetch handler's catch handles
\* it, so the call rejects with it.
Rejects(q, reply, error) == Settles(q, reply, error)

\* getVQD fails: chat / chatStream throw before anything is recorded.
GetVQDFails(r, outcome) ==
    /\ req[r].pc = "getVQD"
    /\ outcome # "ok"
    /\ LET end == Rejects(req[r], NoReply, Thrown(outcome, 0))
       IN  /\ req' = [req EXCEPT ![r] = end.req]
           /\ settled' = end.settled
    /\ UNCHANGED <<now, procs, store, rateLimitInfo, svcVars, callVars>>

\* getVQD returns the token: the call is recorded and the POST is issued.
RecordAndPost(r) ==
    /\ req[r].pc = "getVQD"
    /\ LET p == req[r].proc
           info == recordRequest(rateLimitInfo[p], now)
       IN  /\ rateLimitInfo' = [rateLimitInfo EXCEPT ![p] = info]
           /\ store' = saveRateLimitToStore(info, now)
    /\ req' = [req EXCEPT ![r].pc = "posting", ![r].posts = @ + 1,
                          ![r].recorded = TRUE]
    /\ postLog' = Append(postLog, ChatPost(req[r], now))
    /\ UNCHANGED <<now, procs, settled, serial, svcVars>>

\* The record taken back when the POST ends in an error.
PostRepliesRollsBack(r, reply) ==
    /\ req[r].pc = "posting"
    /\ LET result == IF req[r].path = "chat" THEN ChatSettle(reply)
                     ELSE ChatStreamSettle(reply)
           end == IF result.kind = "error" THEN Rejects(req[r], reply, result)
                  ELSE Settles(req[r], reply, result)
           p == req[r].proc
           ts == rateLimitInfo[p].requestTimestamps
           info == IF result.kind = "error" /\ ts # <<>>
                   THEN [rateLimitInfo[p] EXCEPT
                            !.requestTimestamps = SubSeq(ts, 1, Len(ts) - 1)]
                   ELSE rateLimitInfo[p]
       IN  /\ req' = [req EXCEPT ![r] = end.req]
           /\ settled' = end.settled
           /\ rateLimitInfo' = [rateLimitInfo EXCEPT ![p] = info]
           /\ store' = IF result.kind = "error" THEN saveRateLimitToStore(info, now)
                       ELSE store
    /\ UNCHANGED <<now, procs, svcVars, callVars>>

\* The POST's response arrives and the call settles.
PostReplies(r, reply) ==
    /\ req[r].pc = "posting"
    /\ LET result == IF req[r].path = "chat" THEN ChatSettle(reply)
                     ELSE ChatStreamSettle(reply)
           end == IF result.kind = "error" THEN Rejects(req[r], reply, result)
                  ELSE Settles(req[r], reply, result)
       IN  /\ req' = [req EXCEPT ![r] = end.req]
           /\ settled' = end.settled
    /\ UNCHANGED <<now, procs, store, rateLimitInfo, svcVars, callVars>>

\* The POST's fetch rejects (no response at all).
PostFails(r) ==
    /\ req[r].pc = "posting"
    /\ LET end == Rejects(req[r], NoReply, Thrown("FetchFailed", 0))
       IN  /\ req' = [req EXCEPT ![r] = end.req]
           /\ settled' = end.settled
    /\ UNCHANGED <<now, procs, store, rateLimitInfo, svcVars, callVars>>

\* getRateLimitStatus: reload, clean, and report.
getRateLimitStatus(info, stored, t) ==
    LET loaded == cleanOldTimestamps(loadRateLimitFromStore(info, stored, t), t)
        ts == loaded.requestTimestamps
    IN  [info |-> loaded,
         status |->
            [requestsInCurrentWindow |-> Len(ts),
             maxRequestsPerMinute |-> MAX_REQUESTS_PER_MINUTE,
             timeUntilWindowReset |->
                IF ts # <<>> /\ ts[1] # 0 THEN Max(0, ts[1] + WINDOW_SIZE_MS - t) ELSE 0,
             isCurrentlyLimited |-> loaded.isLimited,
             recommendedWaitTime |->
                Max(0, MIN_REQUEST_INTERVAL_MS - (t - loaded.lastRequestTime))]]

\* Somebody asks process p for its rate limit status.
Status(p) ==
    /\ rateLimitInfo' =
          [rateLimitInfo EXCEPT ![p] = getRateLimitStatus(@, store, now).info]
    /\ UNCHANGED <<now, procs, store, req, settled, svcVars, callVars>>

\* Time passes beyond MaxTime while a timer of waitIfNeeded is pending.
TimerTick(d) ==
    /\ now + d > MaxTime
    /\ \E r \in Reqs : req[r].pc = "sleeping" /\ req[r].wake > now
    /\ now' = now + d
    /\ UNCHANGED <<procs, store, rateLimitInfo, req, settled, svcVars, callVars>>

\* Time passes, up to MaxTime.
Tick(d) ==
    /\ now + d <= MaxTime
    /\ now' = now + d
    /\ UNCHANGED <<procs, store, rateLimitInfo, req, settled, svcVars, callVars>>

\* Spec: MaxReq requests at a time, and of the upstream only what the
\* governor can tell apart (a call that fails at getVQD, one whose POST
\* fails, one that returns).
GovernorReplies ==
    {Reply(200, -1, "sse", <<Line(TRUE, TRUE, <<"H", "i">>)>>, TRUE)}

\* Slot r is the first free one.
FirstFree(r) == \A other \in Reqs : other < r => req[other].pc # "idle"

Next ==
    \/ \E r \in Reqs, p \in procs, stream \in BOOLEAN, withTools \in BOOLEAN :
          FirstFree(r) /\ Arrive(r, p, stream, withTools)
    \/ \E r \in Reqs : Wake(r)
    \/ \E r \in Reqs : GetVQDFails(r, "FailedToGetVQD")
    \/ \E r \in Reqs : RecordAndPost(r)
    \/ \E r \in Reqs, reply \in GovernorReplies : PostReplies(r, reply)
    \/ \E r \in Reqs : PostFails(r)
    \/ \E d \in TickSteps : Tick(d)

Spec == Init /\ [][Next]_vars

\* SpecUpstream: one request at a time, and every reply of the upstream.
NextUpstream ==
    \/ \E p \in procs, stream \in BOOLEAN, withTools \in BOOLEAN :
          Arrive(1, p, stream, withTools)
    \/ Wake(1)
    \/ \E o \in VQDOutcomes : GetVQDFails(1, o)
    \/ RecordAndPost(1)
    \/ \E reply \in UpstreamReplies : PostReplies(1, reply)
    \/ PostFails(1)
    \/ \E d \in TickSteps : Tick(d)

SpecUpstream == Init /\ [][NextUpstream]_vars

\* SpecAdmission: SpecUpstream with the scheduling the runtime gives: the
\* clock keeps advancing while a timer is pending, and a timer whose time
\* has come fires.
TimePasses == \E d \in TickSteps : Tick(d) \/ TimerTick(d)

NextAdmission ==
    \/ NextUpstream
    \/ \E d \in TickSteps : TimerTick(d)

SpecAdmission ==
    /\ Init
    /\ [][NextAdmission]_vars
    /\ WF_vars(TimePasses)
    /\ WF_vars(Wake(1))

\* SpecShared: two server processes on one store, each serving one request
\* at a time (slot p holds the request of process p), so that nothing here
\* comes from two requests meeting inside one process.
InitShared == InitGovernor(AllProcs)

NextShared ==
    \/ \E p \in procs, stream \in BOOLEAN, withTools \in BOOLEAN :
          Arrive(p, p, stream, withTools)
    \/ \E r \in AllProcs : Wake(r)
    \/ \E r \in AllProcs : GetVQDFails(r, "FailedToGetVQD")
    \/ \E r \in AllProcs : RecordAndPost(r)
    \/ \E r \in AllProcs, reply \in GovernorReplies : PostReplies(r, reply)
    \/ \E r \in AllProcs : PostFails(r)
    \/ \E d \in TickSteps : Tick(d)

SpecShared == InitShared /\ [][NextShared]_vars

\* SpecStatus: SpecShared with the status being asked for at any moment.
NextStatus ==
    \/ NextShared
    \/ \E p \in procs : Status(p)

SpecStatus == InitShared /\ [][NextStatus]_vars

\* SpecLimited: SpecUpstream with the status asked for at any moment, on a
\* store that may hold the limited flag and a retry-after hint, left there by
\* whoever wrote the file before.
RETRY_AFTER_HINT == 30

LimitedStores ==
    {NoStore, InitStoreOf(MAX_REQUESTS_PER_MINUTE - 1),
     [InitStoreOf(MAX_REQUESTS_PER_MINUTE - 1) EXCEPT
         !.isLimited = TRUE, !.retryAfter = RETRY_AFTER_HINT],
     [OldFormatStore EXCEPT !.isLimited = TRUE, !.retryAfter = RETRY_AFTER_HINT]}

InitLimited ==
    /\ now = StartTime
    /\ procs = {1}
    /\ store \in LimitedStores
    /\ rateLimitInfo = [p \in AllProcs |-> Constructed(store, now)]
    /\ req = [r \in Reqs |-> IdleReq]
    /\ settled = NothingSettled
    /\ serial = 0
    /\ postLog = <<>>
    /\ ServiceIdle

NextLimited ==
    \/ NextUpstream
    \/ \E p \in procs : Status(p)

SpecLimited == InitLimited /\ [][NextLimited]_vars

\* SpecProcesses: one server process alone on the store, or two sharing it.
InitProcesses == \E ps \in {{1}, AllProcs} : InitGovernor(ps)

SpecProcesses == InitProcesses /\ [][NextShared]_vars

(***************************************************************************)
(* SpecService: one request through the fetch handler of server.ts and     *)
(* OpenAIService.  DuckAI.chat and DuckAI.chatStream are taken from the    *)
(* reply on (ChatSettle, ChatStreamSettle); what comes before is Spec's.   *)
(*   phase "idle"       no request                                         *)
(*         "chat"       awaiting duckAI.chat                               *)
(*         "chatStream" awaiting duckAI.chatStream                         *)
(*         "streaming"  the response stream is being pumped                *)
(*         "responded"  the response is complete                           *)
(*         "cancelled"  the client has cancelled the response stream; the  *)
(*                      read createChatCompletionStream's pump had issued  *)
(*                      is still pending                                   *)
(*         "abandoned"  cancelled, and that pump has ended                 *)
(***************************************************************************)
Messages1 == <<Msg("user", Str(<<"hi">>))>>
Messages2 ==
    <<Msg("system", Str(<<"be", "brief">>)), Msg("user", Str(<<"what", "time">>))>>
Messages3 ==
    <<Msg("user", Str(<<"2+2">>)), Msg("assistant", Null),
      ToolMsg("call_1", Str(<<"4">>)), Msg("user", Str(<<"Weather", "in", "Paris">>))>>
Messages4 == <<Msg("user", Str(<<"what", "is", "2+2">>))>>
Messages5 == <<Msg("user", Str(<<"what", "time", "is", "2+2">>))>>

ValidMessageLists == {Messages1, Messages2, Messages3, Messages4, Messages5}

InvalidMessages ==
    {[t |-> "missing", list |-> <<>>],
     [t |-> "notArray", list |-> <<>>],
     [t |-> "array", list |-> <<>>],
     [t |-> "array", list |-> <<Msg("developer", Str(<<"hi">>))>>],
     [t |-> "array", list |-> <<Msg("user", Str(<<"hi">>)), ToolMsg("", Str(<<"4">>))>>],
     [t |-> "array", list |-> <<ToolMsg("call_1", Null)>>],
     [t |-> "array", list |-> <<Msg("user", Undefined)>>],
     [t |-> "array", list |-> <<Msg("user", NumberValue)>>]}

DeclaredTools == Tools(<<"get_weather", "calculate">>, TRUE)

ToolChoices ==
    {Choice("absent"), Choice("none"), Choice("auto"), Choice("required"),
     ChoiceFunction("calculate"), ChoiceFunction("get_stock_price")}

\* The request bodies SpecService draws from.
ServiceBodies ==
    {Body(m, NoTools, Choice("absent"), FALSE, "") : m \in InvalidMessages}
    \cup {Body([t |-> "array", list |-> Messages1],
               Tools(<<"calculate">>, FALSE), Choice("auto"), FALSE, "gpt-4o-mini")}
    \cup {Body([t |-> "array", list |-> m], NoTools, Choice("absent"), st, "") :
             m \in ValidMessageLists, st \in BOOLEAN}
    \cup {Body([t |-> "array", list |-> m], DeclaredTools, c, st, "gpt-4o-mini") :
             m \in ValidMessageLists, c \in ToolChoices, st \in BOOLEAN}
    \cup {WithStreamOptions(Body([t |-> "array", list |-> Messages1], tl,
                                  Choice("absent"), TRUE, "gpt-4o-mini"), o) :
             tl \in {NoTools, DeclaredTools}, o \in {"include_usage", "no_usage"}}

\* The upstream texts: with and without fragments, whitespace only,
\* whitespace around, lines that are not data or not JSON.
\* A text of more than two stream chunks.
LongText ==
    <<"a", "b", "c", "d", "e", "f", "g", "h", "i", "j", "k", "l",
      "m", "n", "o", "p", "q", "r", "s", "t", "u", "v", "w">>

ServiceLines ==
    {<<>>,
     <<Line(TRUE, TRUE, <<" ">>)>>,
     <<Line(TRUE, TRUE, <<"H", "i">>), Line(TRUE, TRUE, <<" ">>), Line(TRUE, TRUE, <<"!">>)>>,
     <<Line(FALSE, FALSE, <<>>), Line(TRUE, FALSE, <<>>), Line(TRUE, TRUE, <<>>),
       Line(TRUE, TRUE, <<" ", "o", "k">>)>>,
     <<Line(FALSE, TRUE, <<"n", "o">>), Line(TRUE, TRUE, <<"o", "k">>),
       Line(TRUE, FALSE, <<>>)>>,
     <<Line(TRUE, TRUE, LongText)>>}

ServiceReplies ==
    {Reply(429, -1, "sse", <<>>, TRUE), Reply(500, -1, "sse", <<>>, TRUE),
     Reply(200, -1, "json_error", <<Line(FALSE, FALSE, <<>>)>>, TRUE),
     Reply(200, -1, "sse", <<>>, FALSE)}
    \cup {Reply(200, -1, "sse", l, TRUE) : l \in ServiceLines}

Scans ==
    {NoScan, [detected |-> TRUE, calls |-> <<>>],
     [detected |-> TRUE, calls |-> <<ToolCall("calculate", <<"expression", "2+2">>)>>]}

InitService ==
    /\ now = StartTime
    /\ procs = {1}
    /\ store = NoStore
    /\ rateLimitInfo = [p \in AllProcs |-> EmptyRateLimitInfo]
    /\ req = [r \in Reqs |-> IdleReq]
    /\ settled = NothingSettled
    /\ serial = 0
    /\ postLog = <<>>
    /\ ServiceIdle

\* POST /v1/chat/completions: validateRequest, and for a request that
\* passes, createChatCompletion or createChatCompletionStream up to the call
\* of duckAI.chat or duckAI.chatStream.
ReceiveRequest(body) ==
    /\ phase = "idle"
    /\ httpReq' = body
    /\ IF ValidationError(body) # <<>>
       THEN /\ phase' = "responded"
            /\ httpResp' = ServerCatch(ValidationError(body))
            /\ posted' = <<>>
       ELSE LET request == validateRequest(body)
            IN  /\ phase' = PathOf(request.stream,
                                   shouldUseFunctionCalling(request.tools, request.tool_choice))
                /\ posted' = DuckAIRequestOf(request).messages
                /\ httpResp' = NoResponse
    /\ UNCHANGED <<upReply, scan, netLeft, duckQueue, duckClosed, events, downClosed>>

\* The handler alone, DuckAI's call taken as made.
Receive(body) ==
    /\ ReceiveRequest(body)
    /\ UNCHANGED <<govVars, callVars>>

\* The response the handler gives for what chat settled with.
ChatResponse(request, result, found) ==
    IF result.kind = "error" THEN ServerCatch(ErrorMessage(result))
    ELSE LET completion ==
                 IF shouldUseFunctionCalling(request.tools, request.tool_choice)
                 THEN createChatCompletionWithTools(request, result.content, found)
                 ELSE createChatCompletion(request, result.content)
         IN  IF request.stream THEN StreamResponse(completion)
             ELSE JsonResponse(completion)

\* duckAI.chat settles; the handler responds.  A streaming request with
\* tools gets its whole stream at once.
ChatReturns(reply, found) ==
    /\ phase = "chat"
    /\ LET request == validateRequest(httpReq)
           result == ChatSettle(reply)
           usesTools == shouldUseFunctionCalling(request.tools, request.tool_choice)
           response == ChatResponse(request, result, found)
       IN  /\ httpResp' = response
           /\ scan' = IF usesTools /\ result.kind # "error" THEN found ELSE NoScan
           /\ events' = IF response.kind = "stream"
                        THEN StreamOfCompletion(response.completion) ELSE <<>>
           /\ downClosed' = (response.kind = "stream")
    /\ upReply' = reply
    /\ phase' = "responded"
    /\ UNCHANGED <<govVars, callVars, httpReq, posted, netLeft, duckQueue, duckClosed>>

\* duckAI.chat or duckAI.chatStream throws before there is a reply.
ChatThrows(error) ==
    /\ phase \in {"chat", "chatStream"}
    /\ httpResp' = ServerCatch(ErrorMessage(Thrown(error, 0)))
    /\ phase' = "responded"
    /\ UNCHANGED <<govVars, callVars, httpReq, posted, upReply, scan,
                   netLeft, duckQueue, duckClosed, events, downClosed>>

\* duckAI.chatStream settles: an error, or the response stream is set up.
ChatStreamReturns(reply) ==
    /\ phase = "chatStream"
    /\ upReply' = reply
    /\ LET result == ChatStreamSettle(reply)
       IN  IF result.kind = "error"
           THEN /\ httpResp' = ServerCatch(ErrorMessage(result))
                /\ phase' = "responded"
                /\ netLeft' = <<>>
           ELSE /\ httpResp' = StreamResponse(NoCompletion)
                /\ phase' = "streaming"
                /\ netLeft' = reply.lines
    /\ UNCHANGED <<govVars, callVars, httpReq, posted, scan, duckQueue, duckClosed, events, downClosed>>

\* chatStream's pump runs from the moment its stream is constructed until it
\* reads the end of the body: the stream's underlying source has start()
\* only, no pull() and no cancel(), and nobody cancels its reader.
PumpingPhases == {"streaming", "cancelled", "abandoned"}

\* chatStream's pump reads a chunk of the body, k whole lines, and enqueues
\* their fragments.
NetChunk(k) ==
    /\ phase \in PumpingPhases
    /\ ~duckClosed
    /\ duckQueue' = duckQueue \o ChunkFragments(SubSeq(netLeft, 1, k))
    /\ netLeft' = SubSeq(netLeft, k + 1, Len(netLeft))
    /\ UNCHANGED <<govVars, callVars, phase, httpReq, posted, upReply, scan, httpResp,
                   duckClosed, events, downClosed>>

\* Where a network chunk can end inside a line: within the "data: " marker,
\* or after it, within the JSON text.
CutPoints == {"marker", "payload"}

\* The two pieces of a line cut there, as `chunk.split("\n")' of the two
\* chunks yields them: the first is no complete JSON text, the second does
\* not start with the marker.
HeadPiece(line, cut) == Line(line.data /\ cut = "payload", FALSE, <<>>)
TailPiece(line, cut) == Line(FALSE, FALSE, <<>>)

\* chatStream's pump reads a chunk of the body that ends inside line k + 1:
\* k whole lines and the first piece of the next; nothing is kept from one
\* chunk to the next, so the second piece is the first line of the next chunk.
NetChunkSplit(k, cut) ==
    /\ phase \in PumpingPhases
    /\ ~duckClosed
    /\ k < Len(netLeft)
    /\ duckQueue' = duckQueue \o ChunkFragments(SubSeq(netLeft, 1, k)
                                                 \o <<HeadPiece(netLeft[k + 1], cut)>>)
    /\ netLeft' = <<TailPiece(netLeft[k + 1], cut)>> \o SubSeq(netLeft, k + 2, Len(netLeft))
    /\ UNCHANGED <<govVars, callVars, phase, httpReq, posted, upReply, scan, httpResp,
                   duckClosed, events, downClosed>>

\* chatStream's pump reads the end of the body and closes its stream.
NetEnd ==
    /\ phase \in PumpingPhases
    /\ ~duckClosed
    /\ netLeft = <<>>
    /\ duckClosed' = TRUE
    /\ UNCHANGED <<govVars, callVars, phase, httpReq, posted, upReply, scan, httpResp,
                   netLeft, duckQueue, events, downClosed>>

\* createChatCompletionStream's pump reads a fragment and enqueues its
\* chunk.  isFirst is true until the first one.
PumpFragment ==
    /\ phase = "streaming"
    /\ duckQueue # <<>>
    /\ events' = Append(events, ContentChunk(events = <<>>, Head(duckQueue)))
    /\ duckQueue' = Tail(duckQueue)
    /\ UNCHANGED <<govVars, callVars, phase, httpReq, posted, upReply, scan, httpResp,
                   netLeft, duckClosed, downClosed>>

\* createChatCompletionStream's pump reads the end of chatStream's stream.
PumpDone ==
    /\ phase = "streaming"
    /\ duckQueue = <<>>
    /\ duckClosed
    /\ events' = events \o <<FinalChunk("stop"), DoneEvent>>
    /\ downClosed' = TRUE
    /\ phase' = "responded"
    /\ UNCHANGED <<govVars, callVars, httpReq, posted, upReply, scan, httpResp,
                   netLeft, duckQueue, duckClosed>>

\* The client cancels the response stream before its end.  The stream
\* closes; its underlying source has no cancel(), so nothing is told to
\* either pump.
Cancel ==
    /\ phase = "streaming"
    /\ ~downClosed
    /\ downClosed' = TRUE
    /\ phase' = "cancelled"
    /\ UNCHANGED <<govVars, callVars, httpReq, posted, upReply, scan, httpResp,
                   netLeft, duckQueue, duckClosed, events>>

\* After the cancel, the read createChatCompletionStream's pump had pending
\* resolves, with a fragment or with the end; controller.enqueue on the
\* closed stream throws and the pump ends, its reader neither cancelled nor
\* released.
PumpThrows ==
    /\ phase = "cancelled"
    /\ duckQueue # <<>> \/ duckClosed
    /\ duckQueue' = IF duckQueue # <<>> THEN Tail(duckQueue) ELSE duckQueue
    /\ phase' = "abandoned"
    /\ UNCHANGED <<govVars, callVars, httpReq, posted, upReply, scan, httpResp,
                   netLeft, duckClosed, events, downClosed>>

\* The response has gone out, or was cancelled and the upstream body has
\* been read to its end; the handler takes the next request.
Finish ==
    /\ \/ phase = "responded"
       \/ phase = "abandoned" /\ duckClosed
    /\ phase' = "idle"
    /\ httpReq' = NoBody
    /\ posted' = <<>>
    /\ upReply' = NoReply
    /\ scan' = NoScan
    /\ httpResp' = NoResponse
    /\ netLeft' = <<>>
    /\ duckQueue' = <<>>
    /\ duckClosed' = FALSE
    /\ events' = <<>>
    /\ downClosed' = FALSE
    /\ UNCHANGED <<govVars, callVars>>

NextService ==
    \/ \E body \in ServiceBodies : Receive(body)
    \/ \E reply \in ServiceReplies, found \in Scans : ChatReturns(reply, found)
    \/ \E error \in VQDOutcomes \ {"ok"} : ChatThrows(error)
    \/ \E reply \in ServiceReplies : ChatStreamReturns(reply)
    \/ \E k \in 1..Len(netLeft) : NetChunk(k)
    \/ \E k \in 0..Len(netLeft), cut \in CutPoints : NetChunkSplit(k, cut)
    \/ NetEnd
    \/ PumpFragment
    \/ PumpDone
    \/ Cancel
    \/ PumpThrows
    \/ Finish

SpecService == InitService /\ [][NextService]_vars

(***************************************************************************)
(* SpecBridge: the fetch handler and DuckAI together, one request at a     *)
(* time: the handler validates, then calls duckAI.chat or chatStream, which *)
(* runs as in SpecUpstream, and responds with what the call settles with.  *)
(***************************************************************************)
BridgeBodies ==
    {Body(m, NoTools, Choice("absent"), FALSE, "") : m \in InvalidMessages}
    \cup {Body([t |-> "array", list |-> Messages1],
               Tools(<<"calculate">>, FALSE), Choice("auto"), FALSE, "gpt-4o-mini")}
    \cup {Body([t |-> "array", list |-> Messages1], NoTools, Choice("absent"), st, "") :
             st \in BOOLEAN}
    \cup {Body([t |-> "array", list |-> Messages1], DeclaredTools, Choice("auto"),
               FALSE, "gpt-4o-mini")}

\* The call of duckAI.chat / chatStream made before the request is validated.
HandleCallsFirst(body) ==
    /\ req[1].pc = "idle"
    /\ ReceiveRequest(body)
    /\ ArriveCall(1, 1, body.stream,
                  shouldUseFunctionCalling(body.tools, body.tool_choice))

\* POST /v1/chat/completions: validateRequest throws into the handler's
\* catch, or the validated request goes to createChatCompletion(Stream),
\* which runs synchronously into duckAI.chat / chatStream and up to that
\* call's first suspension.
Handle(body) ==
    /\ req[1].pc = "idle"
    /\ ReceiveRequest(body)
    /\ IF ValidationError(body) # <<>>
       THEN UNCHANGED <<govVars, callVars>>
       ELSE LET request == validateRequest(body)
            IN  ArriveCall(1, 1, request.stream,
                           shouldUseFunctionCalling(request.tools, request.tool_choice))

\* The call has settled; the handler goes on with its result.
Respond(found) ==
    /\ phase \in {"chat", "chatStream"}
    /\ req[1].pc = "idle"
    /\ IF settled.reply = NoReply THEN ChatThrows(settled.result.error)
       ELSE IF phase = "chat" THEN ChatReturns(settled.reply, found)
       ELSE ChatStreamReturns(settled.reply)

NextBridge ==
    \/ \E body \in BridgeBodies : Handle(body)
    \/ Wake(1)
    \/ \E o \in VQDOutcomes : GetVQDFails(1, o)
    \/ RecordAndPost(1)
    \/ \E reply \in UpstreamReplies : PostReplies(1, reply)
    \/ PostFails(1)
    \/ \E found \in Scans : Respond(found)
    \/ \E k \in 1..Len(netLeft) : NetChunk(k)
    \/ NetEnd
    \/ PumpFragment
    \/ PumpDone
    \/ Finish
    \/ \E d \in TickSteps : Tick(d)

SpecBridge == Init /\ [][NextBridge]_vars

(***************************************************************************)
(* The claims.                                                             *)
(***************************************************************************)
InWindow(timestamps, t) == SelectSeq(timestamps, LAMBDA ts : ts > t - 60000)

\* C1: with one server process, whatever the arrivals, the persisted window
\* never holds more than 20 recorded timestamps of the trailing 60 s.
C1_WindowWithinCap ==
    Len(InWindow(store.requestTimestamps, now)) <= 20

\* C2: with one server process, any two consecutively recorded calls are at
\* least 1000 ms apart.
C2_MinIntervalApart ==
    \A i \in 1..(Len(store.requestTimestamps) - 1) :
        store.requestTimestamps[i + 1] - store.requestTimestamps[i] >= 1000

\* C3: the messages handed to the upstream call have role user or assistant
\* only.
C3_OnlyUserAssistantUpstream ==
    \A i \in 1..Len(posted) : posted[i].role \in {"user", "assistant"}

\* The stream C4 describes for fragments f1..fn.
ExpectedStream(fragments) ==
    <<Chunk("assistant", FALSE, <<>>, <<>>, "null")>>
    \o [i \in 1..Len(fragments) |-> Chunk("", TRUE, fragments[i], <<>>, "null")]
    \o <<Chunk("", FALSE, <<>>, <<>>, "stop"), DoneEvent>>

IsPlainStream ==
    /\ httpReq.stream
    /\ httpResp.kind = "stream"
    /\ ~(httpReq.tools.t = "array" /\ httpReq.tools.list # <<>>)

\* C4: a streaming response without tools, once closed, is exactly a
\* role-only chunk, one content chunk per upstream fragment in order, one
\* stop chunk and [DONE].
C4_StreamEventOrder ==
    (IsPlainStream /\ downClosed)
        => events = ExpectedStream(ChunkFragments(upReply.lines))

OnlyWhitespace(text) == \A i \in 1..Len(text) : text[i] = " "

\* C5: a non-streaming completion with finish_reason stop has a non-empty
\* string as content, and the fixed apology when the text accumulated from
\* the upstream reply is empty or whitespace.
C5_EmptyTextGivesApology ==
    (httpResp.kind = "json" /\ httpResp.completion.finish_reason = "stop")
        => /\ httpResp.completion.content.t = "string"
           /\ httpResp.completion.content.s # <<>>
           /\ OnlyWhitespace(ConcatMessages(upReply.lines))
                 => httpResp.completion.content.s = FALLBACK_RESPONSE

C5_Witness ==
    /\ httpResp.kind = "json"
    /\ httpResp.completion.finish_reason = "stop"
    /\ upReply.status = 200
    /\ upReply.lines = <<Line(TRUE, TRUE, <<" ">>)>>
    /\ httpResp.completion.content = Str(FALLBACK_RESPONSE)

ToolsDeclared == httpReq.tools.t = "array" /\ httpReq.tools.list # <<>>
NoMarkerFound == ~scan.detected \/ scan.calls = <<>>

\* C6: tools declared, tool_choice "required" or a named function, and no
\* call found in the text: the completion has exactly one tool call, null
\* content and finish_reason tool_calls.
C6_ForcedToolCall ==
    (/\ httpResp.kind \in {"json", "stream"}
     /\ phase = "responded"
     /\ ToolsDeclared
     /\ httpReq.tool_choice.t \in {"required", "function"}
     /\ NoMarkerFound)
        => /\ Len(httpResp.completion.tool_calls) = 1
           /\ httpResp.completion.content = Null
           /\ httpResp.completion.finish_reason = "tool_calls"

C6_Witness ==
    /\ httpResp.kind = "json"
    /\ ToolsDeclared
    /\ httpReq.tool_choice = ChoiceFunction("calculate")
    /\ scan = [detected |-> TRUE, calls |-> <<>>]
    /\ httpResp.completion.tool_calls = <<ToolCall("calculate", <<"expression", "2+2">>)>>
    /\ httpResp.completion.finish_reason = "tool_calls"

\* C7: a request that fails validation is answered with 400 and
\* invalid_request_error.
C7_ValidationFailureIs400 ==
    (phase = "responded" /\ ValidationError(httpReq) # <<>>)
        => /\ httpResp.status = 400
           /\ httpResp.type = "invalid_request_error"

\* C8: a 429 on the chat POST makes the call fail with the rate-limited
\* error carrying retry-after times 1000 (60 000 when the header is absent),
\* after the one POST of the request.
C8_RateLimitedPropagates ==
    settled.reply.status = 429
        => /\ settled.result.kind = "error"
           /\ settled.result.error = "RateLimited"
           /\ settled.result.waitTime =
                 IF settled.reply.retryAfter = -1 THEN 60000
                 ELSE 1000 * settled.reply.retryAfter
           /\ settled.posts = 1

C8_Witness ==
    /\ settled.reply.status = 429
    /\ settled.reply.retryAfter = 30
    /\ settled.path = "chatStream"
    /\ settled.result = Thrown("RateLimited", 30000)

C10_ErrorPayloadIsFatal ==
    (settled.reply.status = 200 /\ settled.reply.kind = "json_error")
        => settled.result.kind = "error"

\* C11: once the client has cancelled a streaming response, nothing more is
\* read from the upstream body, nothing more is enqueued on chatStream's
\* stream, and no further chunk is enqueued on the response stream.
C11_CancelStopsUpstream ==
    [][(phase \in {"cancelled", "abandoned"} /\ phase' \in {"cancelled", "abandoned"})
          => /\ netLeft' = netLeft
             /\ duckClosed' = duckClosed
             /\ Len(duckQueue') <= Len(duckQueue)
             /\ events' = events]_vars

\* C12: every chat POST is issued after waitIfNeeded has returned in its
\* call, carries the user-agent made in that call and the token solved in that
\* call for that user-agent, and no two POSTs share a token or a user-agent.
C12_FreshTokenPerPost ==
    \A i \in 1..Len(postLog) :
        /\ postLog[i].admitted
        /\ postLog[i].userAgent = postLog[i].call
        /\ postLog[i].vqd = [call |-> postLog[i].call, userAgent |-> postLog[i].userAgent]
        /\ \A j \in 1..Len(postLog) :
              j # i => /\ postLog[j].vqd # postLog[i].vqd
                       /\ postLog[j].userAgent # postLog[i].userAgent

C12_Witness ==
    /\ Len(postLog) >= 2
    /\ \E r \in Reqs : req[r].pc = "posting" /\ req[r].waitedFor = "windowFull"

\* C13: the store is written back without looking at it: what a recording
\* process persists is its own window, as it read it on admission, with its
\* new timestamp, whatever another process has persisted meanwhile.  The
\* witness is the interleaving this permits: two processes admitted on the
\* same window of 19 calls both record, 21 calls in one trailing 60 s.
C13_WriteBackWithoutLock ==
    [][\A r \in Reqs :
          (req[r].pc = "getVQD" /\ req'[r].pc = "posting")
             => store'.requestTimestamps =
                   InWindow(Append(rateLimitInfo[req[r].proc].requestTimestamps, now), now)]_vars

C13_Witness ==
    \E i, j \in 1..Len(postLog) :
        /\ postLog[i].proc = 1
        /\ postLog[j].proc = 2
        /\ postLog[i].window = postLog[j].window
        /\ Len(postLog[i].window) = 19
        /\ InWindow(postLog[i].window, now) = postLog[i].window
        /\ postLog[i].at > now - 60000
        /\ postLog[j].at > now - 60000
        /\ \A k \in 1..19 : postLog[i].window[k] < postLog[i].at
                              /\ postLog[i].window[k] < postLog[j].at

\* C19: a call that slept because the window was full goes on only when, on
\* the state reloaded at that moment, the window is below the cap and the
\* minimum interval has elapsed.
C19_RecheckAfterWindowFullWait ==
    [][\A r \in Reqs :
          (/\ req[r].pc = "sleeping"
           /\ req[r].waitedFor = "windowFull"
           /\ req'[r].pc = "getVQD")
             => ~waitIfNeeded(rateLimitInfo[req[r].proc], store, now).decision.shouldWait]_vars

\* C20: while the challenge of a call is being solved, the call's timestamp
\* has already been appended to the window and persisted.
C20_RecordBeforeSolve ==
    \A r \in Reqs : req[r].pc = "getVQD" => req[r].recorded

Contents(messages) == [i \in 1..Len(messages) |-> messages[i].content]

\* C14: the messages handed to the upstream call carry the content of every
\* inbound message, in the inbound order; when tools are requested, one
\* message with the generated tool instructions comes before all of them.
C14_OrderKeptInstructionsFirst ==
    (phase # "idle" /\ ValidationError(httpReq) = <<>>)
        => IF shouldUseFunctionCalling(httpReq.tools, httpReq.tool_choice)
           THEN /\ Len(posted) = Len(httpReq.messages.list) + 1
                /\ Includes(posted[1].content.s, "TOOL_PROMPT")
                /\ Contents(Tail(posted)) = Contents(httpReq.messages.list)
           ELSE Contents(posted) = Contents(httpReq.messages.list)

C14_Witness ==
    /\ phase = "chat"
    /\ httpReq.messages.list = Messages3
    /\ httpReq.tool_choice.t = "required"
    /\ Len(posted) = 5
    /\ posted[5].content = Str(<<"Weather", "in", "Paris">>)

UsageChunks(evs) == SelectSeq(evs, LAMBDA e : e.type = "usage")

\* C15: a finished streaming response has exactly one usage-only chunk,
\* between the stop chunk and [DONE], when the request set
\* stream_options.include_usage, and none otherwise.
C15_UsageChunkIffOptedIn ==
    (phase = "responded" /\ httpResp.kind = "stream" /\ downClosed)
        => IF httpReq.stream_options = "include_usage"
           THEN /\ Len(UsageChunks(events)) = 1
                /\ Len(events) >= 3
                /\ events[Len(events) - 1].type = "usage"
           ELSE UsageChunks(events) = <<>>

MaxTextLen == 12
TextOfLength(n) == [i \in 1..n |-> "x"]

\* C16: estimateTokens(s) is the least integer not below len(s) / 4 and does
\* not decrease when len(s) grows; in a non-streaming completion the prompt
\* and completion tokens are the estimates of the prompt text and of the
\* returned text, and total_tokens is their sum.
C16_TokenEstimate ==
    /\ \A n \in 0..MaxTextLen :
          LET e == estimateTokens(TextOfLength(n))
          IN  /\ 4 * e >= n
              /\ 4 * (e - 1) < n
              /\ n > 0 => e >= estimateTokens(TextOfLength(n - 1))
    /\ httpResp.kind = "json"
          => LET u == httpResp.completion.usage
                 prompt == promptText(posted)
             IN  /\ u.total_tokens = u.prompt_tokens + u.completion_tokens
                 /\ 4 * u.prompt_tokens >= Len(prompt)
                 /\ 4 * (u.prompt_tokens - 1) < Len(prompt)
                 /\ httpResp.completion.finish_reason = "stop"
                       => /\ 4 * u.completion_tokens >= Len(httpResp.completion.content.s)
                          /\ 4 * (u.completion_tokens - 1) < Len(httpResp.completion.content.s)

C16_Witness ==
    /\ httpResp.kind = "json"
    /\ httpResp.completion.finish_reason = "stop"
    /\ httpResp.completion.usage.prompt_tokens = 2
    /\ httpResp.completion.usage.completion_tokens = 1
    /\ httpResp.completion.usage.total_tokens = 3

\* C17: a request without a model is served with gpt-4o-mini: that is the
\* model sent upstream and the model of the response.
C17_DefaultModelIsGpt4oMini ==
    (httpResp.kind = "json" /\ httpReq.model = "")
        => /\ DuckAIRequestOf(validateRequest(httpReq)).model = "gpt-4o-mini"
           /\ httpResp.completion.model = "gpt-4o-mini"

\* C21: right after a call is recorded at time t, the persisted window ends
\* with t, lastRequestTime is t, and every persisted timestamp is less than
\* 60 000 ms older than t.
C21_RecordedStateAfterCall ==
    [][\A r \in Reqs :
          (req[r].pc = "getVQD" /\ req'[r].pc = "posting")
             => /\ store'.exists
                /\ store'.requestTimestamps # <<>>
                /\ store'.requestTimestamps[Len(store'.requestTimestamps)] = now
                /\ store'.lastRequestTime = now
                /\ \A i \in 1..Len(store'.requestTimestamps) :
                      now - store'.requestTimestamps[i] < 60000]_vars

C21_Witness ==
    /\ Len(postLog) = 1
    /\ postLog[1].at = StartTime + 500
    /\ Len(postLog[1].window) = 19
    /\ postLog[1].window[1] <= postLog[1].at - 60000
    /\ store.lastRequestTime = postLog[1].at
    /\ Len(store.requestTimestamps) = 19

\* C22: an admission decision is taken on the persisted state of that
\* moment: the window it counts is the persisted window (what of it lies in
\* the trailing 60 s), and the call sleeps exactly when that window is full
\* or the persisted last call is less than 1000 ms ago.
C22_DecisionOnPersistedState ==
    [][\A r \in Reqs :
          (req[r].pc = "idle" /\ req'[r].pc # "idle" /\ store.exists /\ ~store.old)
             => /\ req'[r].window = InWindow(store.requestTimestamps, now)
                /\ (req'[r].pc = "sleeping")
                      <=> \/ Len(InWindow(store.requestTimestamps, now)) >= 20
                          \/ now - store.lastRequestTime < 1000]_vars

C22_Witness ==
    \E i, j \in 1..Len(postLog) :
        /\ postLog[i].proc = 1
        /\ postLog[j].proc = 2
        /\ postLog[i].at < postLog[j].at
        /\ postLog[j].window # <<>>
        /\ postLog[j].window[Len(postLog[j].window)] = postLog[i].at

\* C23: the wait an admission decides on is max(0, oldest + 60 000 - now +
\* 100) when the window holds 20 or more, 1000 - (now - lastRequestTime) when
\* it holds fewer and less than 1000 ms have passed since the last call, and
\* 0 otherwise; it is never negative.
C23_ComputedWait ==
    [][\A r \in Reqs :
          (req[r].pc = "idle" /\ req'[r].pc # "idle")
             => LET w == req'[r].window
                    last == rateLimitInfo'[req'[r].proc].lastRequestTime
                    wait == IF req'[r].pc = "sleeping" THEN req'[r].wake - now ELSE 0
                    full == w[1] + 60000 - now + 100
                IN  /\ wait >= 0
                    /\ wait = IF Len(w) >= 20 THEN (IF full > 0 THEN full ELSE 0)
                               ELSE IF now - last < 1000 THEN 1000 - (now - last)
                               ELSE 0]_vars

C23_Witness ==
    \E r \in Reqs :
        /\ req[r].pc = "sleeping"
        /\ req[r].waitedFor = "windowFull"
        /\ Len(req[r].window) = 20
        /\ req[r].wake = req[r].window[1] + 60100
        /\ now < req[r].wake

\* C24: an admission that sleeps goes on to the challenge solve: its timer
\* fires, and the call neither sleeps again nor fails.
C24_AdmissionCompletes ==
    (req[1].pc = "sleeping") ~> (req[1].pc = "getVQD")

C24_Witness ==
    /\ req[1].pc = "getVQD"
    /\ req[1].waitedFor = "minInterval"
    /\ now > MaxTime

\* What the call in slot r persists if it is recorded now, given the
\* in-memory records.
WouldPersist(r, infos) ==
    saveRateLimitToStore(recordRequest(infos[req[r].proc], now), now)

\* C25: asking for the status leaves the persisted state, the requests in
\* flight and the POSTs as they are, and leaves unchanged what a call that
\* has taken its admission decision and is not yet recorded will persist.
C25_StatusIsAdvisory ==
    [][(\E p \in procs : Status(p))
          => /\ store' = store
             /\ req' = req
             /\ postLog' = postLog
             /\ \A r \in Reqs :
                   req[r].pc \in {"sleeping", "getVQD"}
                      => WouldPersist(r, rateLimitInfo') = WouldPersist(r, rateLimitInfo)]_vars

\* C26: a call whose getVQD fails (status not ok, header missing, or the
\* challenge program throwing) ends in that error, after one status fetch and
\* without a chat POST.
C26_ChallengeFailureIsFatal ==
    settled.result.error \in {"FailedToGetVQD", "MissingVQDHeaders", "ScriptThrew"}
        => /\ settled.result.kind = "error"
           /\ settled.fetches = 1
           /\ settled.posts = 0
           /\ settled.reply = NoReply
           /\ Len(postLog) < serial

C26_Witness ==
    /\ settled.result = Thrown("ScriptThrew", 0)
    /\ settled.posts = 0
    /\ serial = 1
    /\ postLog = <<>>
    /\ req[1].pc = "idle"

RECURSIVE Flatten(_)
Flatten(texts) == IF texts = <<>> THEN <<>> ELSE Head(texts) \o Flatten(Tail(texts))

\* The trimmed concatenation, in line order, of the messages of the lines
\* that start with the marker and decode as JSON with a non-empty message.
ExtractedText(lines) ==
    LET good == SelectSeq(lines, LAMBDA l : l.data /\ l.json /\ l.message # <<>>)
    IN  Trim(Flatten([i \in 1..Len(good) |-> good[i].message]))

IsTextCompletion ==
    /\ httpResp.kind = "json"
    /\ httpResp.completion.finish_reason = "stop"
    /\ upReply.status = 200

\* C27 as stated: the text returned on the non-streaming path is the trimmed
\* concatenation of the messages of the well-formed data lines.
C27_TextIsExtraction ==
    IsTextCompletion => httpResp.completion.content.s = ExtractedText(upReply.lines)

\* C27, amended: the text returned on the non-streaming path is the trimmed
\* concatenation of the messages of the well-formed data lines, or the fixed
\* apology when that concatenation is empty; a reply with status 200 never
\* makes a non-streaming request fail, whatever its lines.
C27_TextIsExtractionOrApology ==
    /\ IsTextCompletion
          => httpResp.completion.content.s =
                IF ExtractedText(upReply.lines) = <<>> THEN FALLBACK_RESPONSE
                ELSE ExtractedText(upReply.lines)
    /\ (phase = "responded" /\ upReply.status = 200 /\ ~httpReq.stream)
          => httpResp.kind = "json"

C27_Witness ==
    /\ IsTextCompletion
    /\ upReply.lines = <<Line(FALSE, TRUE, <<"n", "o">>), Line(TRUE, TRUE, <<"o", "k">>),
                         Line(TRUE, FALSE, <<>>)>>
    /\ httpResp.completion.content.s = <<"o", "k">>

\* C28: a finished streaming response that ends with a stop chunk, and
\* whose upstream reply delivered no fragment, has a content chunk with the
\* fixed apology.
C28_EmptyStreamGivesApology ==
    (/\ phase = "responded"
     /\ httpResp.kind = "stream"
     /\ downClosed
     /\ upReply.status = 200
     /\ ChunkFragments(upReply.lines) = <<>>
     /\ \E i \in 1..Len(events) : events[i].finish_reason = "stop")
        => \E i \in 1..Len(events) :
              events[i].hasContent /\ events[i].content = FALLBACK_RESPONSE

\* C29: the function of a forced call is the one tool_choice names;
\* otherwise calculate when the last message has a <number> <operator>
\* <number> pattern and calculate is declared, get_weather when it has the
\* word weather and get_weather is declared, and the first declared tool when
\* no heuristic applies.
C29_ForcedFunctionChoice ==
    (/\ phase = "responded"
     /\ httpResp.kind \in {"json", "stream"}
     /\ ToolsDeclared
     /\ httpReq.tool_choice.t \in {"required", "function"}
     /\ NoMarkerFound
     /\ httpResp.completion.tool_calls # <<>>)
        => LET name == httpResp.completion.tool_calls[1].name
               list == httpReq.messages.list
               text == ContentOrEmpty(list[Len(list)].content)
               lower == ToLowerCase(text)
           IN  IF httpReq.tool_choice.t = "function" THEN name = httpReq.tool_choice.name
               ELSE IF HasMath(text) /\ Declares(httpReq.tools, "calculate")
                    THEN name = "calculate"
               ELSE IF Includes(lower, "weather") /\ Declares(httpReq.tools, "get_weather")
                    THEN name = "get_weather"
               ELSE (~Includes(lower, "time") /\ ~Includes(lower, "calculate"))
                       => name = httpReq.tools.list[1]

IsToolsStream ==
    /\ phase = "responded"
    /\ httpResp.kind = "stream"
    /\ httpResp.completion.finish_reason # "null"

\* C30: the stream of a request with tools is, for a completion with tool
\* calls, one chunk with role assistant and the calls, one chunk with
\* finish_reason tool_calls, and [DONE]; otherwise a role-only chunk, content
\* chunks of 1 to 10 characters that concatenate to the content, one stop
\* chunk, and [DONE]; [DONE] occurs once, last.
C30_ToolsStreamShape ==
    IsToolsStream
        => LET c == httpResp.completion
               n == Len(events)
           IN  /\ downClosed
               /\ Len(SelectSeq(events, LAMBDA e : e.type = "done")) = 1
               /\ events[n].type = "done"
               /\ IF c.tool_calls # <<>>
                  THEN events = <<Chunk("assistant", FALSE, <<>>, c.tool_calls, "null"),
                                  Chunk("", FALSE, <<>>, <<>>, "tool_calls"), DoneEvent>>
                  ELSE /\ n >= 3
                       /\ events[1] = Chunk("assistant", FALSE, <<>>, <<>>, "null")
                       /\ events[n - 1] = Chunk("", FALSE, <<>>, <<>>, "stop")
                       /\ \A i \in 2..(n - 2) :
                             /\ events[i].type = "chunk"
                             /\ events[i].role = ""
                             /\ events[i].hasContent
                             /\ Len(events[i].content) \in 1..10
                             /\ events[i].tool_calls = <<>>
                             /\ events[i].finish_reason = "null"
                       /\ Flatten([i \in 1..(n - 3) |-> events[i + 1].content]) = c.content.s

C30_Witness ==
    /\ IsToolsStream
    /\ httpResp.completion.content.s = LongText
    /\ Len(events) = 6
    /\ events[4].content = <<"u", "v", "w">>

Recorded(t) ==
    /\ \E i \in 1..Len(store.requestTimestamps) : store.requestTimestamps[i] = t
    /\ \E p \in procs : \E i \in 1..Len(rateLimitInfo[p].requestTimestamps) :
          rateLimitInfo[p].requestTimestamps[i] = t

\* C31: from the moment the chat POST of a call is issued its timestamp is
\* in memory and in the store, and it is still there after the POST has
\* ended, with whatever outcome (429, another error status, an error payload,
\* a failed fetch, a success).
C31_RecordedBeforePostAndKept ==
    \A i \in 1..Len(postLog) : Recorded(postLog[i].at)

C31_Witness ==
    /\ Len(postLog) = 1
    /\ settled.posts = 1
    /\ settled.reply.status = 429
    /\ settled.result.kind = "error"
    /\ req[1].pc = "idle"
    /\ Recorded(postLog[1].at)

Persisted(t) ==
    \E i \in 1..Len(store.requestTimestamps) : store.requestTimestamps[i] = t

\* C32 as stated: the timestamp of every recorded call is in the persisted
\* window until it is older than the window.
C32_NoLostUpdate ==
    \A i \in 1..Len(postLog) :
        postLog[i].at > now - WINDOW_SIZE_MS => Persisted(postLog[i].at)

\* C32, amended: a record persists the window the recording process holds
\* in memory with the new timestamp, so every timestamp of that window that is
\* younger than the window size is still persisted after the record; with one
\* process on the store the timestamp of every recorded call stays persisted
\* until it is older than the window size.  (A timestamp another process
\* persisted since the recording process last read the store is overwritten.)
C32_RecordKeepsOwnWindow ==
    /\ [](procs = {1} => C32_NoLostUpdate)
    /\ [][\A r \in Reqs :
            (req[r].pc = "getVQD" /\ req'[r].pc = "posting")
               => LET ts == rateLimitInfo[req[r].proc].requestTimestamps
                  IN  /\ \E i \in 1..Len(store'.requestTimestamps) :
                            store'.requestTimestamps[i] = now
                      /\ \A k \in 1..Len(ts) :
                            ts[k] > now - WINDOW_SIZE_MS
                               => \E i \in 1..Len(store'.requestTimestamps) :
                                     store'.requestTimestamps[i] = ts[k]]_vars

C32_Witness ==
    /\ procs = AllProcs
    /\ \E i, j \in 1..Len(postLog) :
          /\ i < j
          /\ postLog[i].proc # postLog[j].proc
          /\ postLog[i].at < postLog[j].at
          /\ Persisted(postLog[i].at)
          /\ Persisted(postLog[j].at)

\* C33: the content chunks of a finished streaming response without tools
\* concatenate to the text chat accumulates from the same body, however the
\* body came in network chunks.
C33_StreamTextEqualsChatText ==
    (/\ IsPlainStream
     /\ phase = "responded"
     /\ downClosed
     /\ upReply.status = 200)
        => LET chunks == SelectSeq(events, LAMBDA e : e.hasContent)
           IN  Flatten([i \in 1..Len(chunks) |-> chunks[i].content])
                  = ConcatMessages(upReply.lines)

\* C34: in a non-streaming completion finish_reason is "tool_calls" exactly
\* when there are tool calls and the content is null; in every other one
\* finish_reason is "stop", there are no tool calls and the content is a
\* non-empty string.
C34_FinishReasonMatchesMessage ==
    httpResp.kind = "json"
        => LET c == httpResp.completion
           IN  /\ c.finish_reason = "tool_calls"
                     <=> (c.tool_calls # <<>> /\ c.content.t = "null")
               /\ c.finish_reason # "tool_calls"
                     => /\ c.finish_reason = "stop"
                        /\ c.tool_calls = <<>>
                        /\ c.content.t = "string"
                        /\ c.content.s # <<>>

C34_Witness ==
    /\ httpResp.kind = "json"
    /\ scan.detected
    /\ scan.calls = <<>>
    /\ httpReq.tool_choice.t \notin {"required", "function"}
    /\ httpResp.completion.finish_reason = "stop"
    /\ httpResp.completion.content.s # <<>>

\* C35: no step changes the limited flag or the retry-after hint, in memory
\* or in the store (a store written for the first time gets false and no
\* hint), whatever the upstream answers; the status reports
\* isCurrentlyLimited exactly when the store holds true.
C35_LimitedFlagNeverChanges ==
    /\ [](\A p \in procs :
            getRateLimitStatus(rateLimitInfo[p], store, now).status.isCurrentlyLimited
               <=> (store.exists /\ store.isLimited))
    /\ [][/\ \A p \in procs :
               /\ rateLimitInfo'[p].isLimited = rateLimitInfo[p].isLimited
               /\ rateLimitInfo'[p].retryAfter = rateLimitInfo[p].retryAfter
          /\ store.exists
               => /\ store'.isLimited = store.isLimited
                  /\ store'.retryAfter = store.retryAfter
          /\ (~store.exists /\ store'.exists)
               => /\ store'.isLimited = FALSE
                  /\ store'.retryAfter = -1]_vars

C35_Witness ==
    /\ settled.posts = 1
    /\ settled.reply.status = 429
    /\ settled.result.kind = "error"
    /\ ~store.old
    /\ store.lastRequestTime = postLog[1].at
    /\ store.isLimited
    /\ store.retryAfter = RETRY_AFTER_HINT
    /\ rateLimitInfo[1].isLimited

\* C36: the tool call of a forced call names one of the tools the request
\* declares.
C36_ForcedCallIsDeclared ==
    (/\ phase = "responded"
     /\ httpResp.kind \in {"json", "stream"}
     /\ ToolsDeclared
     /\ httpReq.tool_choice.t \in {"required", "function"}
     /\ NoMarkerFound)
        => \A i \in 1..Len(httpResp.completion.tool_calls) :
              \E k \in 1..Len(httpReq.tools.list) :
                 httpReq.tools.list[k] = httpResp.completion.tool_calls[i].name

FailsValidation(body) ==
    /\ body # NoBody
    /\ body.messages \in InvalidMessages \/ ~body.tools.valid

\* C37: while a request that fails validation is being handled, from its
\* arrival to its response, nothing of the rate state changes in memory or in
\* the store, no call is started (no admission wait, no challenge fetch) and
\* no chat POST is issued.
C37_InvalidRequestHasNoEffect ==
    [][FailsValidation(httpReq')
          => /\ store' = store
             /\ rateLimitInfo' = rateLimitInfo
             /\ req' = req
             /\ settled' = settled
             /\ serial' = serial
             /\ postLog' = postLog]_vars

C37_Witness ==
    /\ FailsValidation(httpReq)
    /\ phase = "responded"
    /\ httpResp.status = 400
    /\ serial = 1
    /\ Len(postLog) = 1
    /\ store.exists
    /\ req[1].pc = "idle"

=============================================================================
